---- MODULE Spec2Model ----
(***************************************************************************)
(* Two-pool Henri-Michaelis-Menten model integrated with RK4               *)
(* (src/bin/jam_two_pool_russell_zometa.rs).                               *)
(*                                                                         *)
(* Every number of the program is an f64.  The model keeps IEEE-754        *)
(* binary64 values exactly: a value is a record                            *)
(*     [c |-> class, s |-> sign, e |-> exponent, hi |-> .., lo |-> ..]     *)
(* standing for (-1)^s * (hi * 2^27 + lo) * 2^e.  The 53-bit significand   *)
(* is split in two limbs so that every intermediate fits a 32-bit integer. *)
(* Finite values are canonical: zero is m = 0, e = 0; a normal value has   *)
(* 2^52 <= m < 2^53 and -1074 <= e <= 971; a subnormal has e = -1074.      *)
(* All operations round to nearest, ties to even, as the hardware does.    *)
(***************************************************************************)
EXTENDS Integers, Sequences, FiniteSets, TLC

\* ------------------------------------------------------------------------
\* binary64 arithmetic
\* ------------------------------------------------------------------------

\* Intermediate results are handed on as operator arguments, one operator per
\* stage of a computation.

B27 == 2^27

F64Zero(s) == [c |-> "num", s |-> s, e |-> 0, hi |-> 0, lo |-> 0]

F64Inf(s) == [c |-> "inf", s |-> s, e |-> 0, hi |-> 0, lo |-> 0]

F64NaN == [c |-> "nan", s |-> 0, e |-> 0, hi |-> 0, lo |-> 0]

IsZero(a) == a.c = "num" /\ a.hi = 0 /\ a.lo = 0

IsNaN(a) == a.c = "nan"

IsFinite(a) == a.c = "num"

Max(a, b) == IF a >= b THEN a ELSE b

Min(a, b) == IF a <= b THEN a ELSE b

\* the number of significant bits of x, 0 <= x < 2^31, searched from above
RECURSIVE BitLenFrom(_, _)
BitLenFrom(x, n) == IF n = 0 \/ x >= 2^(n - 1) THEN n ELSE BitLenFrom(x, n - 1)

BitLen(x) == BitLenFrom(x, 31)

\* number of significant bits of the two-limb integer hi * 2^27 + lo
WLen(hi, lo) == IF hi > 0 THEN 27 + BitLen(hi) ELSE BitLen(lo)

\* (hi, lo) shifted right by k bits; the third component is 1 when st = 1 or
\* a one was shifted out (a value has fewer than 81 bits: a longer shift
\* leaves what a shift by 81 leaves)
RECURSIVE ShrSticky(_, _, _, _)
ShrSticky(hi, lo, k, st) ==
    IF k > 81
    THEN ShrSticky(hi, lo, 81, st)
    ELSE IF k >= 27
    THEN ShrSticky(hi \div B27, hi % B27, k - 27, IF st = 1 \/ lo # 0 THEN 1 ELSE 0)
    ELSE IF k = 0
    THEN <<hi, lo, st>>
    ELSE <<hi \div 2^k,
           (lo \div 2^k) + (hi % 2^k) * 2^(27 - k),
           IF st = 1 \/ lo % 2^k # 0 THEN 1 ELSE 0>>

\* (hi, lo) shifted left by k bits (no bit is lost: the callers shift a value
\* of at most 57 - k bits)
RECURSIVE Shl(_, _, _)
Shl(hi, lo, k) ==
    IF k >= 27
    THEN Shl(lo, 0, k - 27)
    ELSE IF k = 0
    THEN <<hi, lo>>
    ELSE <<hi * 2^k + (lo \div 2^(27 - k)), (lo % 2^(27 - k)) * 2^k>>

\* the finite value m * 2^e for a significand m = (hi, lo) of at most 53 bits
\* that is normal or has e = -1074; infinity when it is too large
Pack(s, e, hi, lo) ==
    IF hi = 0 /\ lo = 0 THEN F64Zero(s)
    ELSE IF hi = 2^26
    THEN (IF e + 53 > 1023 THEN F64Inf(s)
          ELSE [c |-> "num", s |-> s, e |-> e + 1, hi |-> 2^25, lo |-> 0])
    ELSE IF e + 52 > 1023 /\ hi >= 2^25 THEN F64Inf(s)
    ELSE [c |-> "num", s |-> s, e |-> e, hi |-> hi, lo |-> lo]

\* (hi, lo) plus one when up
RoundUp(s, e, hi, lo, up) ==
    Pack(s, e,
         IF up /\ lo = B27 - 1 THEN hi + 1 ELSE hi,
         IF up THEN (IF lo = B27 - 1 THEN 0 ELSE lo + 1) ELSE lo)

\* w = <<hi, lo, sticky>> holds one bit more than the result: drop it, rounding
\* to nearest, ties to even
RoundHalf(s, e, w) ==
    RoundUp(s, e, w[1] \div 2, (w[2] \div 2) + (w[1] % 2) * (B27 \div 2),
            w[2] % 2 = 1 /\ (w[3] = 1 \/ (w[2] \div 2) % 2 = 1))

PackW(s, e, w) == Pack(s, e, w[1], w[2])

\* the value shifted by k bits: right (rounding) when k > 0, left otherwise
RoundShift(s, e, hi, lo, st, k) ==
    IF k <= 0
    THEN PackW(s, e + k, Shl(hi, lo, -k))
    ELSE RoundHalf(s, e + k, ShrSticky(hi, lo, k - 1, st))

\* The value (-1)^s * (hi * 2^27 + lo [+ a nonzero fraction when st = 1]) * 2^e
\* rounded to binary64: round to nearest, ties to even; gradual underflow;
\* overflow to infinity.
RoundPack(s, e, hi, lo, st) ==
    IF hi = 0 /\ lo = 0
    THEN F64Zero(s)
    ELSE RoundShift(s, e, hi, lo, st, Max(WLen(hi, lo) - 53, -1074 - e))

\* |a| < |b| for finite canonical values
MagLt(a, b) ==
    IF IsZero(b) THEN FALSE
    ELSE IF IsZero(a) THEN TRUE
    ELSE IF a.e # b.e THEN a.e < b.e
    ELSE IF a.hi # b.hi THEN a.hi < b.hi
    ELSE a.lo < b.lo

\* r = <<hi, lo, sticky>>: the sticky bit is kept in the lowest bit
Jam(r) == <<r[1], IF r[3] = 1 /\ r[2] % 2 = 0 THEN r[2] + 1 ELSE r[2]>>

ShrW(w, d) == ShrSticky(w[1], w[2], d, 0)

\* the smaller operand aligned to the larger one's exponent, with three guard
\* bits, the lowest of which collects every one shifted out
Aligned(b, d) == Jam(ShrW(Shl(b.hi, b.lo, 3), d))

AddLimbs(s, e, hi, lo) == RoundPack(s, e, hi + (lo \div B27), lo % B27, 0)

AddW(s, e, x, w) == AddLimbs(s, e, x[1] + w[1], x[2] + w[2])

\* |a| + |b| with sign s, for nonzero finite a, b with |a| >= |b|
AddMag(s, a, b) == AddW(s, a.e - 3, Shl(a.hi, a.lo, 3), Aligned(b, a.e - b.e))

SubLimbs(s, e, hi, lo) ==
    IF hi = 0 /\ lo = 0 THEN F64Zero(0) ELSE RoundPack(s, e, hi, lo, 0)

SubW(s, e, x, w) ==
    IF x[2] < w[2]
    THEN SubLimbs(s, e, x[1] - w[1] - 1, x[2] - w[2] + B27)
    ELSE SubLimbs(s, e, x[1] - w[1], x[2] - w[2])

\* |a| - |b| with sign s, for nonzero finite a, b with |a| >= |b|
SubMag(s, a, b) == SubW(s, a.e - 3, Shl(a.hi, a.lo, 3), Aligned(b, a.e - b.e))

F64Neg(a) == IF IsNaN(a) THEN a ELSE [a EXCEPT !.s = 1 - a.s]

\* a + b
F64Add(a, b) ==
    IF IsNaN(a) \/ IsNaN(b) THEN F64NaN
    ELSE IF a.c = "inf" THEN (IF b.c = "inf" /\ b.s # a.s THEN F64NaN ELSE a)
    ELSE IF b.c = "inf" THEN b
    ELSE IF IsZero(a) /\ IsZero(b) THEN F64Zero(IF a.s = b.s THEN a.s ELSE 0)
    ELSE IF IsZero(b) THEN a
    ELSE IF IsZero(a) THEN b
    ELSE IF a.s = b.s
    THEN (IF MagLt(a, b) THEN AddMag(a.s, b, a) ELSE AddMag(a.s, a, b))
    ELSE IF MagLt(a, b) THEN SubMag(b.s, b, a)
    ELSE SubMag(a.s, a, b)

\* a - b
F64Sub(a, b) == F64Add(a, F64Neg(b))

NormW(e, w) == <<e, w[1], w[2]>>

NormBy(a, k) == NormW(a.e - k, Shl(a.hi, a.lo, k))

\* a nonzero significand normalised to 53 bits: <<exponent, hi, lo>>
Norm(a) == NormBy(a, 53 - WLen(a.hi, a.lo))

\* the four 14-bit limbs of a 53-bit significand, lowest first
Limbs14(hi, lo) ==
    <<lo % 16384, (lo \div 16384) + (hi % 2) * 8192, (hi \div 2) % 16384, hi \div 32768>>

\* the column sums of the product of two four-limb numbers
Columns(x, w) ==
    <<x[1] * w[1],
      x[1] * w[2] + x[2] * w[1],
      x[1] * w[3] + x[2] * w[2] + x[3] * w[1],
      x[1] * w[4] + x[2] * w[3] + x[3] * w[2] + x[4] * w[1],
      x[2] * w[4] + x[3] * w[3] + x[4] * w[2],
      x[3] * w[4] + x[4] * w[3],
      x[4] * w[4]>>

\* the base-2^14 digits of the number with column sums cols, from column j on
RECURSIVE Digits14(_, _, _)
Digits14(cols, j, carry) ==
    IF j > Len(cols)
    THEN <<carry>>
    ELSE <<(cols[j] + carry) % 16384>> \o Digits14(cols, j + 1, (cols[j] + carry) \div 16384)

\* p: the eight digits of a product of two 53-bit significands; its bits from
\* bit 50 on are kept, the others are sticky
MulDigits(s, e, p) ==
    RoundPack(s, e + 50,
              (p[6] \div 128) + p[7] * 128 + p[8] * 2097152,
              (p[4] \div 256) + p[5] * 64 + (p[6] % 128) * 1048576,
              IF p[1] # 0 \/ p[2] # 0 \/ p[3] # 0 \/ p[4] % 256 # 0 THEN 1 ELSE 0)

MulNorm(s, na, nb) ==
    MulDigits(s, na[1] + nb[1],
              Digits14(Columns(Limbs14(na[2], na[3]), Limbs14(nb[2], nb[3])), 1, 0))

\* a * b
F64Mul(a, b) ==
    IF IsNaN(a) \/ IsNaN(b) THEN F64NaN
    ELSE IF a.c = "inf" \/ b.c = "inf"
    THEN (IF IsZero(a) \/ IsZero(b) THEN F64NaN ELSE F64Inf((a.s + b.s) % 2))
    ELSE IF IsZero(a) \/ IsZero(b) THEN F64Zero((a.s + b.s) % 2)
    ELSE MulNorm((a.s + b.s) % 2, Norm(a), Norm(b))

WGe(ah, al, bh, bl) == ah > bh \/ (ah = bh /\ al >= bl)

\* the four 14-bit limbs of 8 * (hi * 2^27 + lo), lowest first
Limbs8(hi, lo) ==
    <<(lo * 8) % 16384,
      ((lo * 8) \div 16384) % 16384,
      (hi * 4 + ((lo * 8) \div 268435456)) % 16384,
      (hi * 4 + ((lo * 8) \div 268435456)) \div 16384>>

\* the limbs s0 .. s3 of a difference, each with the carry of the one below
\* still in it, and the carry x4 out of the top
Settle(q, s0, s1, s2, s3, x4) == <<x4 + (s3 \div 16384), q, s0 % 16384, s1 % 16384, s2 % 16384, s3 % 16384>>

Carry3(q, s0, s1, s2, x3, x4, d) ==
    Settle(q, s0, s1, s2, x3 - q * d[4] + (s2 \div 16384), x4)

Carry2(q, s0, s1, x2, x3, x4, d) ==
    Carry3(q, s0, s1, x2 - q * d[3] + (s1 \div 16384), x3, x4, d)

Carry1(q, s0, x1, x2, x3, x4, d) ==
    Carry2(q, s0, x1 - q * d[2] + (s0 \div 16384), x2, x3, x4, d)

\* (x4 x3 x2 x1 0) - q * d in base 2^14: <<top, q, r0, r1, r2, r3>>; the
\* difference is negative exactly when top is
TimesMinus(q, x4, x3, x2, x1, d) == Carry1(q, 0 - q * d[1], x1, x2, x3, x4, d)

\* One digit, in base 2^14, of a long division by d = <<d0, d1, d2, d3>> with
\* d3 >= 2^13.  The dividend is (x4 x3 x2 x1 0) with (x4 x3 x2 x1) < d, and q
\* is an estimate of the digit that is not below it: it is lowered until the
\* remainder is not negative.  The result is <<digit, r0, r1, r2, r3>>.
RECURSIVE DivDigit(_, _, _, _, _, _)
RECURSIVE DivTry(_, _, _, _, _, _)
DivTry(m, x4, x3, x2, x1, d) ==
    IF m[1] < 0
    THEN DivDigit(m[2] - 1, x4, x3, x2, x1, d)
    ELSE <<m[2], m[3], m[4], m[5], m[6]>>

DivDigit(q, x4, x3, x2, x1, d) == DivTry(TimesMinus(q, x4, x3, x2, x1, d), x4, x3, x2, x1, d)

\* the next digit of the quotient after the step that left g = <<q, r0, .. r3>>
NextDigit(g, d) ==
    DivDigit(Min((g[5] * 16384 + g[4]) \div d[4], 16383), g[5], g[4], g[3], g[2], d)

\* the quotient digits q4 .. q0 and the last step g0, rounded
DivRound(s, e, q4, q3, q2, q1, g0) ==
    RoundPack(s, e,
              (q1 \div 8192) + q2 * 2 + q3 * 32768 + q4 * 536870912,
              g0[1] + (q1 % 8192) * 16384,
              IF g0[2] = 0 /\ g0[3] = 0 /\ g0[4] = 0 /\ g0[5] = 0 THEN 0 ELSE 1)

Div1(s, e, q4, q3, q2, g1, d) == DivRound(s, e, q4, q3, q2, g1[1], NextDigit(g1, d))

Div2(s, e, q4, q3, g2, d) == Div1(s, e, q4, q3, g2[1], NextDigit(g2, d), d)

Div3(s, e, q4, g3, d) == Div2(s, e, q4, g3[1], NextDigit(g3, d), d)

\* the division of significands: q4 is the integer part of the quotient and
\* r = <<r0, .. r3>> the limbs of eight times the remainder it leaves
Div4(s, e, q4, r, d) == Div3(s, e, q4, NextDigit(<<q4, r[1], r[2], r[3], r[4]>>, d), d)

\* <<exponent, hi, lo>> / <<exponent, hi, lo>>, both normalised
DivNorm(s, na, nb) ==
    IF WGe(na[2], na[3], nb[2], nb[3])
    THEN Div4(s, na[1] - nb[1] - 56, 1,
              IF na[3] < nb[3]
              THEN Limbs8(na[2] - nb[2] - 1, na[3] - nb[3] + B27)
              ELSE Limbs8(na[2] - nb[2], na[3] - nb[3]),
              Limbs8(nb[2], nb[3]))
    ELSE Div4(s, na[1] - nb[1] - 56, 0, Limbs8(na[2], na[3]), Limbs8(nb[2], nb[3]))

\* a / b
F64Div(a, b) ==
    IF IsNaN(a) \/ IsNaN(b) THEN F64NaN
    ELSE IF a.c = "inf" THEN (IF b.c = "inf" THEN F64NaN ELSE F64Inf((a.s + b.s) % 2))
    ELSE IF b.c = "inf" THEN F64Zero((a.s + b.s) % 2)
    ELSE IF IsZero(b) THEN (IF IsZero(a) THEN F64NaN ELSE F64Inf((a.s + b.s) % 2))
    ELSE IF IsZero(a) THEN F64Zero((a.s + b.s) % 2)
    ELSE DivNorm((a.s + b.s) % 2, Norm(a), Norm(b))

\* -1, 0, 1: the sign of a non-NaN value
Sgn(a) == IF IsZero(a) THEN 0 ELSE IF a.s = 0 THEN 1 ELSE -1

\* a < b (false when either is NaN)
F64Lt(a, b) ==
    IF IsNaN(a) \/ IsNaN(b) THEN FALSE
    ELSE IF Sgn(a) # Sgn(b) THEN Sgn(a) < Sgn(b)
    ELSE IF Sgn(a) = 0 THEN FALSE
    ELSE IF a.s = 0
    THEN (IF a.c = "inf" THEN FALSE ELSE IF b.c = "inf" THEN TRUE ELSE MagLt(a, b))
    ELSE (IF b.c = "inf" THEN FALSE ELSE IF a.c = "inf" THEN TRUE ELSE MagLt(b, a))

\* a <= b (false when either is NaN)
F64Le(a, b) == ~IsNaN(a) /\ ~IsNaN(b) /\ ~F64Lt(b, a)

F64Abs(a) == IF IsNaN(a) THEN a ELSE [a EXCEPT !.s = 0]

\* the integer n as an f64 (exact for |n| < 2^31)
FromInt(n) == RoundPack(IF n < 0 THEN 1 ELSE 0, 0, 0, IF n < 0 THEN -n ELSE n, 0)

\* the f64 a decimal literal n/d denotes (n, d exact, d a power of ten): the
\* nearest f64, which is what the correctly rounded quotient is
Dec(n, d) == F64Div(FromInt(n), FromInt(d))

\* ------------------------------------------------------------------------
\* model parameters (lines 21-42)
\* ------------------------------------------------------------------------

N_STATES == 2

Pools == 0 .. (N_STATES - 1)

\* const I: [f64; 5] = [20.0, 25.0, 6.0, 9.0, 3.0]
I == [j \in 0 .. 4 |-> <<FromInt(20), FromInt(25), FromInt(6), FromInt(9), FromInt(3)>>[j + 1]]

\* const C: [f64; 6] = [18.0, 13.0, 8.0, 0.32, 0.36, 0.31]
C == [j \in 0 .. 5 |-> <<FromInt(18), FromInt(13), FromInt(8),
                         Dec(32, 100), Dec(36, 100), Dec(31, 100)>>[j + 1]]

One == FromInt(1)

\* AuxiliaryResults::new()
AuxiliaryResultsNew ==
    [con_a |-> F64Div(I[3], I[1]),
     con_b |-> F64Div(I[4], I[2]),
     fab |-> F64Zero(0),
     fba |-> F64Zero(0),
     fbo |-> F64Zero(0)]

\* ------------------------------------------------------------------------
\* the system of differential equations: the closure given to System::new.
\* It writes the fields of the caller's AuxiliaryResults one after the other
\* and reads some of them back; rr is that value on entry.  The result holds
\* dydt, the value of *results on return and the closure's own return value.
\* ------------------------------------------------------------------------

\* results.con_a = y[0] / I[0]
WriteConA(yy, rr) == [rr EXCEPT !.con_a = F64Div(yy[0], I[0])]

\* results.con_b = y[1] / I[1]
WriteConB(yy, rr) == [rr EXCEPT !.con_b = F64Div(yy[1], I[1])]

\* results.fab = C[0] / (1.0 + (C[3] / results.con_a))
WriteFab(rr) == [rr EXCEPT !.fab = F64Div(C[0], F64Add(One, F64Div(C[3], rr.con_a)))]

\* results.fba = C[1] / (1.0 + (C[4] / results.con_b))
WriteFba(rr) == [rr EXCEPT !.fba = F64Div(C[1], F64Add(One, F64Div(C[4], rr.con_b)))]

\* results.fbo = C[2] / (1.0 + (C[5] / results.con_b))
WriteFbo(rr) == [rr EXCEPT !.fbo = F64Div(C[2], F64Add(One, F64Div(C[5], rr.con_b)))]

\* dydt[0] = I[4] + results.fba - results.fab
\* dydt[1] = results.fab - results.fba - results.fbo;  Ok(())
WriteDydt(rr) ==
    [dydt |-> [j \in Pools |->
                 IF j = 0
                 THEN F64Sub(F64Add(I[4], rr.fba), rr.fab)
                 ELSE F64Sub(F64Sub(rr.fab, rr.fba), rr.fbo)],
     results |-> rr,
     ret |-> "Ok"]

\* Three faulty variants of the closure, against which the properties below are
\* compared.
\* fab is computed from the concentration *results held on entry
WriteFabStale(rr, old) == [rr EXCEPT !.fab = F64Div(C[0], F64Add(One, F64Div(C[3], old.con_a)))]

systemStale(tt, yy, rr) ==
    WriteDydt(WriteFbo(WriteFba(WriteFabStale(WriteConB(yy, WriteConA(yy, rr)), rr))))

\* the closure works on a copy of *results and leaves the caller's value alone
KeepResults(f, rr) == [f EXCEPT !.results = rr]

systemOnCopy(tt, yy, rr) ==
    KeepResults(WriteDydt(WriteFbo(WriteFba(WriteFab(WriteConB(yy, WriteConA(yy, rr)))))), rr)

\* fab = C[0] / (1.0 - (C[3] / results.con_a))
WriteFabMinus(rr) == [rr EXCEPT !.fab = F64Div(C[0], F64Sub(One, F64Div(C[3], rr.con_a)))]

systemMinus(tt, yy, rr) ==
    WriteDydt(WriteFbo(WriteFba(WriteFabMinus(WriteConB(yy, WriteConA(yy, rr))))))

system(tt, yy, rr) ==
    WriteDydt(WriteFbo(WriteFba(WriteFab(WriteConB(yy, WriteConA(yy, rr))))))

\* ------------------------------------------------------------------------
\* the integrator behind OdeSolver::solve with Method::Rk4
\* ------------------------------------------------------------------------

FiniteVec(v) == \A j \in Pools : IsFinite(v[j])

\* v + a * k
VecAxpy(v, a, k) == [j \in Pools |-> F64Add(v[j], F64Mul(a, k[j]))]

Checked(f) == [dydt |-> f.dydt, results |-> f.results, ok |-> f.ret = "Ok" /\ FiniteVec(f.dydt)]

\* one derivative evaluation of a step: it fails when the function fails or
\* the derivative is not finite
Evaluate(tt, yy, rr) == Checked(system(tt, yy, rr))

Aborted(yy, rr) == [status |-> "Err", y |-> yy, results |-> rr]

Committed(yy, new, rr) ==
    IF FiniteVec(new)
    THEN [status |-> "Ok", y |-> new, results |-> rr]
    ELSE Aborted(yy, rr)

\* the inputs of the second, third and fourth derivative evaluation
Stage2(yy, h, e1) == VecAxpy(yy, F64Div(h, FromInt(2)), e1.dydt)

Stage3(yy, h, e2) == VecAxpy(yy, F64Div(h, FromInt(2)), e2.dydt)

Stage4(yy, h, e3) == VecAxpy(yy, h, e3.dydt)

\* k1 + 2 k2 + 2 k3 + k4
Slopes(e1, e2, e3, e4) ==
    [j \in Pools |->
       F64Add(F64Add(F64Add(e1.dydt[j], F64Mul(FromInt(2), e2.dydt[j])),
                     F64Mul(FromInt(2), e3.dydt[j])),
              e4.dydt[j])]

\* new_state = state + h/6 * (k1 + 2 k2 + 2 k3 + k4)
Combine(yy, h, e1, e2, e3, e4) == VecAxpy(yy, F64Div(h, FromInt(6)), Slopes(e1, e2, e3, e4))

After4(tt, yy, h, e1, e2, e3, e4) ==
    IF ~e4.ok THEN Aborted(yy, e4.results)
    ELSE Committed(yy, Combine(yy, h, e1, e2, e3, e4), e4.results)

After3(tt, yy, h, e1, e2, e3) ==
    IF ~e3.ok THEN Aborted(yy, e3.results)
    ELSE After4(tt, yy, h, e1, e2, e3, Evaluate(F64Add(tt, h), Stage4(yy, h, e3), e3.results))

After2(tt, yy, h, e1, e2) ==
    IF ~e2.ok THEN Aborted(yy, e2.results)
    ELSE After3(tt, yy, h, e1, e2,
                Evaluate(F64Add(tt, F64Div(h, FromInt(2))), Stage3(yy, h, e2), e2.results))

After1(tt, yy, h, e1) ==
    IF ~e1.ok THEN Aborted(yy, e1.results)
    ELSE After2(tt, yy, h, e1,
                Evaluate(F64Add(tt, F64Div(h, FromInt(2))), Stage2(yy, h, e1), e1.results))

\* one step of size h from (tt, yy); rr is the caller's AuxiliaryResults.  All
\* or nothing: a failed evaluation or a non-finite result leaves y as it was.
Rk4Step(tt, yy, h, rr) == After1(tt, yy, h, Evaluate(tt, yy, rr))

\* solver.solve(&mut y, t, t + dt, None, &mut results): Rk4 has no step-size
\* control, so the interval [x0, x1] is covered by one step of x1 - x0
Solve(yy, x0, x1, rr) == Rk4Step(x0, yy, F64Sub(x1, x0), rr)

\* ------------------------------------------------------------------------
\* main
\* ------------------------------------------------------------------------

VARIABLES
    pc,             \* the position in main
    num_steps,      \* let num_steps
    step,           \* the number of completed iterations of the for loop
    t,              \* let mut t
    y,              \* let mut y
    results,        \* let mut results
    solve_ret,      \* what the last call of solver.solve returned
    t_trace,        \* the three trace vectors
    state_trace,
    results_trace,
    frames,         \* what fg has drawn: one entry per redraw
    stdout,         \* what println! has written: one entry per line
    events,         \* what the current iteration has done so far
    fn_arg,         \* function harness: the arguments of the call
    fn_dydt,        \* function harness: the derivative the closure wrote
    fn_ret          \* function harness: what the closure returned

vars == <<pc, num_steps, step, t, y, results, solve_ret, t_trace, state_trace,
          results_trace, frames, stdout, events, fn_arg, fn_dydt, fn_ret>>

fn_vars == <<fn_arg, fn_dydt, fn_ret>>

\* let dt = 0.1
dt == Dec(1, 10)

\* let mut t = 0.0
t0 == F64Zero(0)

\* let mut y = NumVector::from(&[I[4], I[3]])
InitialState == [j \in Pools |-> IF j = 0 THEN I[4] ELSE I[3]]

\* let num_steps = 100
NumSteps == 100

Header == "Time, PoolA, PoolB, ConA, ConB, Fab, Fba, Fbo"

NoVector == [j \in Pools |-> F64Zero(0)]

\* lines 100-118: the state when the loop is first reached, for the initial
\* amounts y0 and n steps
MainStart(y0, n) ==
    /\ pc = "loop"
    /\ num_steps = n
    /\ step = 0
    /\ t = t0
    /\ y = y0
    /\ results = AuxiliaryResultsNew
    /\ solve_ret = "none"
    /\ t_trace = <<t0>>
    /\ state_trace = <<y0>>
    /\ results_trace = <<AuxiliaryResultsNew>>
    /\ frames = <<>>
    /\ stdout = <<Header>>
    /\ events = <<>>
    /\ fn_arg = [y |-> y0, results |-> AuxiliaryResultsNew]
    /\ fn_dydt = NoVector
    /\ fn_ret = "none"

Init == MainStart(InitialState, NumSteps)

\* a faulty variant: for _ in 0..=num_steps
LoopContinuesInclusive(k, n) == k <= n

\* for _ in 0..num_steps
LoopContinues(k, n) == k < n

\* a faulty variant of the loop body: the redraw precedes the three pushes
SuccessorPlotFirst(p) ==
    CASE p = "solve" -> "advance"
      [] p = "advance" -> "plot"
      [] p = "plot" -> "push_t"
      [] p = "push_t" -> "push_state"
      [] p = "push_state" -> "push_results"
      [] p = "push_results" -> "println"
      [] p = "println" -> "loop"

\* the statement executed after the statement at p, inside the loop body
Successor(p) ==
    CASE p = "solve" -> "advance"
      [] p = "advance" -> "push_t"
      [] p = "push_t" -> "push_state"
      [] p = "push_state" -> "push_results"
      [] p = "push_results" -> "plot"
      [] p = "plot" -> "println"
      [] p = "println" -> "loop"

\* a faulty variant: the Result of solve is dropped
ExpectIgnored(ret) == Successor("solve")

\* .expect("Solver failed"): where control goes with the Result of solve
Expect(ret) == IF ret = "Ok" THEN Successor("solve") ELSE "panicked"

\* a faulty variant: the last element is overwritten
PushOverwrite(v, x) == IF v = <<>> THEN <<x>> ELSE [v EXCEPT ![Len(v)] = x]

\* Vec::push
Push(v, x) == Append(v, x)

LoopHead ==
    /\ pc = "loop"
    /\ IF LoopContinues(step, num_steps)
       THEN pc' = "solve" /\ events' = <<>>
       ELSE pc' = "done" /\ events' = events
    /\ UNCHANGED <<num_steps, step, t, y, results, solve_ret, t_trace, state_trace,
                   results_trace, frames, stdout, fn_vars>>

\* solver.solve(&mut y, t, t + dt, None, &mut results).expect("Solver failed")
Solved(r) ==
    /\ y' = r.y
    /\ results' = r.results
    /\ solve_ret' = r.status
    /\ pc' = Expect(r.status)
    /\ events' = IF r.status = "Ok" THEN Append(events, "step") ELSE events

SolveStep ==
    /\ pc = "solve"
    /\ Solved(Solve(y, t, F64Add(t, dt), results))
    /\ UNCHANGED <<num_steps, step, t, t_trace, state_trace, results_trace, frames,
                   stdout, fn_vars>>

\* t += dt
Advance ==
    /\ pc = "advance"
    /\ t' = F64Add(t, dt)
    /\ pc' = Successor("advance")
    /\ events' = Append(events, "advance")
    /\ UNCHANGED <<num_steps, step, y, results, solve_ret, t_trace, state_trace,
                   results_trace, frames, stdout, fn_vars>>

\* t_trace.push(t)
PushT ==
    /\ pc = "push_t"
    /\ t_trace' = Push(t_trace, t)
    /\ pc' = Successor("push_t")
    /\ events' = Append(events, "push_t")
    /\ UNCHANGED <<num_steps, step, t, y, results, solve_ret, state_trace, results_trace,
                   frames, stdout, fn_vars>>

\* state_trace.push(y.clone())
PushState ==
    /\ pc = "push_state"
    /\ state_trace' = Push(state_trace, y)
    /\ pc' = Successor("push_state")
    /\ events' = Append(events, "push_state")
    /\ UNCHANGED <<num_steps, step, t, y, results, solve_ret, t_trace, results_trace,
                   frames, stdout, fn_vars>>

\* results_trace.push(results)
PushResults ==
    /\ pc = "push_results"
    /\ results_trace' = Push(results_trace, results)
    /\ pc' = Successor("push_results")
    /\ events' = Append(events, "push_results")
    /\ UNCHANGED <<num_steps, step, t, y, results, solve_ret, t_trace, state_trace,
                   frames, stdout, fn_vars>>

\* lines 135-154: the redraw.  Every curve pairs t_trace with an iterator over
\* state_trace or results_trace; a frame records how many entries of each
\* vector the redraw read.
Plot ==
    /\ pc = "plot"
    /\ frames' = Append(frames, [times |-> Len(t_trace), states |-> Len(state_trace),
                                 results |-> Len(results_trace)])
    /\ pc' = Successor("plot")
    /\ events' = Append(events, "plot")
    /\ UNCHANGED <<num_steps, step, t, y, results, solve_ret, t_trace, state_trace,
                   results_trace, stdout, fn_vars>>

\* lines 157-161: the log line, and the end of the loop body
Println ==
    /\ pc = "println"
    /\ stdout' = Append(stdout, <<t, y[0], y[1], results.con_a, results.con_b,
                                  results.fab, results.fba, results.fbo>>)
    /\ pc' = Successor("println")
    /\ step' = step + 1
    /\ events' = Append(events, "println")
    /\ UNCHANGED <<num_steps, t, y, results, solve_ret, t_trace, state_trace,
                   results_trace, frames, fn_vars>>

Next ==
    \/ LoopHead
    \/ SolveStep
    \/ Advance
    \/ PushT
    \/ PushState
    \/ PushResults
    \/ Plot
    \/ Println

\* the program as it is
Spec == Init /\ [][Next]_vars

\* ------------------------------------------------------------------------
\* the driver for any number of steps
\* ------------------------------------------------------------------------

MaxSteps == 8

InitRun == \E n \in (0 .. MaxSteps) \cup {NumSteps} : MainStart(InitialState, n)

\* control leaves the statement it is at
Proceeds ==
    /\ pc \notin {"done", "panicked"}
    /\ pc' \in {"loop", "solve", "advance", "push_t", "push_state", "push_results",
                "plot", "println", "done", "panicked"} \ {pc}
    /\ UNCHANGED <<num_steps, step, t, y, results, solve_ret, t_trace, state_trace,
                   results_trace, frames, stdout, events, fn_vars>>

\* main is sequential and each of its statements returns: control does not
\* stay at a statement forever.  (A step of Next is possible exactly where
\* Proceeds is, and every step of Next changes pc.)
SpecRun == InitRun /\ [][Next]_vars /\ WF_vars(Proceeds)

\* ------------------------------------------------------------------------
\* the driver from other initial amounts
\* ------------------------------------------------------------------------

Vec2(a, b) == [j \in Pools |-> IF j = 0 THEN a ELSE b]

\* [3.0, -9.0]: the concentration of pool B is -0.36 = -KBA
SingularState == Vec2(FromInt(3), FromInt(-9))

RunStates == {InitialState, Vec2(FromInt(9), FromInt(6)), Vec2(FromInt(0), FromInt(6)),
              SingularState}

InitFrom == \E y0 \in RunStates, n \in 1 .. MaxSteps : MainStart(y0, n)

SpecFrom == InitFrom /\ [][Next]_vars

\* ------------------------------------------------------------------------
\* the closure and one step of the integrator, as functions of their arguments
\* ------------------------------------------------------------------------

\* 1.0e18
Huge == F64Mul(FromInt(1000000000), FromInt(1000000000))

\* 2^-1040
Tiny == RoundPack(0, -1040, 0, 1, 0)

AmountInputs == {FromInt(0), FromInt(3), FromInt(6), FromInt(9), FromInt(-9),
                 Dec(-64, 10), Huge, Tiny}

StateInputs == {Vec2(a, b) : a \in AmountInputs, b \in AmountInputs}

\* what *results may hold when the closure is called
ResultsInputs ==
    {AuxiliaryResultsNew,
     [con_a |-> F64NaN, con_b |-> F64Inf(1), fab |-> FromInt(7), fba |-> FromInt(-7),
      fbo |-> Huge]}

InitFn ==
    /\ pc = "fn_ready"
    /\ num_steps = 0
    /\ step = 0
    /\ t = t0
    /\ y \in StateInputs
    /\ results \in ResultsInputs
    /\ solve_ret = "none"
    /\ t_trace = <<>>
    /\ state_trace = <<>>
    /\ results_trace = <<>>
    /\ frames = <<>>
    /\ stdout = <<>>
    /\ events = <<>>
    /\ fn_arg = [y |-> y, results |-> results]
    /\ fn_dydt = NoVector
    /\ fn_ret = "none"

\* (system.function)(&mut dydt, t, &y, &mut results)
Evaluated(f) ==
    /\ fn_dydt' = f.dydt
    /\ results' = f.results
    /\ fn_ret' = f.ret

FnEvaluate ==
    /\ pc = "fn_ready"
    /\ Evaluated(system(t, y, results))
    /\ pc' = "fn_evaluated"
    /\ UNCHANGED <<num_steps, step, t, y, solve_ret, t_trace, state_trace, results_trace,
                   frames, stdout, events, fn_arg>>

\* solver.solve(&mut y, t, t + dt, None, &mut results)
FnSolved(r) ==
    /\ y' = r.y
    /\ results' = r.results
    /\ solve_ret' = r.status

FnSolve ==
    /\ pc = "fn_ready"
    /\ FnSolved(Solve(y, t, F64Add(t, dt), results))
    /\ pc' = "fn_solved"
    /\ UNCHANGED <<num_steps, step, t, t_trace, state_trace, results_trace, frames,
                   stdout, events, fn_vars>>

NextFn == FnEvaluate \/ FnSolve

SpecFn == InitFn /\ [][NextFn]_vars

\* the functions on their own, and the program
SpecKinetics == (Init \/ InitFn) /\ [][Next \/ NextFn]_vars

\* ------------------------------------------------------------------------
\* properties
\* ------------------------------------------------------------------------

NonNeg(a) == F64Le(F64Zero(0), a)

Positive(a) == F64Lt(F64Zero(0), a)

\* v is an initial segment of w
IsPrefix(v, w) == Len(v) <= Len(w) /\ SubSeq(w, 1, Len(v)) = v

\* |a - b| <= 1.0e-9
Near(a, b) == F64Le(F64Abs(F64Sub(a, b)), Dec(1, 1000000000))

\* the auxiliary results one evaluation of the model at the amounts p leaves
SnapshotAt(p) == WriteFbo(WriteFba(WriteFab(WriteConB(p, WriteConA(p, AuxiliaryResultsNew)))))

\* the step size solve is given for the step that starts at time tp
StepSize(tp) == F64Sub(F64Add(tp, dt), tp)

\* the amounts at which the second, third and fourth evaluation of the step
\* of size h from (tt, yy) are made
K2State(tt, yy, h) == Stage2(yy, h, Evaluate(tt, yy, AuxiliaryResultsNew))

K3State(tt, yy, h) ==
    Stage3(yy, h, Evaluate(F64Add(tt, F64Div(h, FromInt(2))), K2State(tt, yy, h),
                           AuxiliaryResultsNew))

K4State(tt, yy, h) ==
    Stage4(yy, h, Evaluate(F64Add(tt, F64Div(h, FromInt(2))), K3State(tt, yy, h),
                           AuxiliaryResultsNew))

TracesHave(n) == Len(t_trace) = n /\ Len(state_trace) = n /\ Len(results_trace) = n

TimeAfter100 == F64Sub(FromInt(10), RoundPack(0, -49, 0, 11, 0))

C1_Done ==
    pc = "done" =>
        /\ step = num_steps
        /\ Len(frames) = num_steps
        /\ Len(stdout) = num_steps + 1
        /\ TracesHave(num_steps + 1)
        /\ t_trace[1] = t0
        /\ state_trace[1] = InitialState
        /\ \A k \in 1 .. num_steps :
              /\ t_trace[k + 1] = F64Add(t_trace[k], dt)
              /\ Near(t_trace[k + 1], Dec(k, 10))
        /\ (num_steps = 0 => y = InitialState /\ t = t0)
        /\ (num_steps = NumSteps =>
              /\ t_trace[NumSteps + 1] = TimeAfter100
              /\ t_trace[NumSteps + 1] # FromInt(10))

C2_AsStated ==
    /\ results_trace[1] = system(t_trace[1], state_trace[1], AuxiliaryResultsNew).results
    /\ results_trace[1].con_a = F64Div(state_trace[1][0], I[0])
    /\ results_trace[1].con_b = F64Div(state_trace[1][1], I[1])

\* C3, as stated: an evaluation at amounts with a concentration <= 0 returns
\* a DomainError, and no flux that is not finite is written to the auxiliary
\* results.
C3_AsStated ==
    pc = "fn_evaluated" =>
        /\ (~Positive(results.con_a) \/ ~Positive(results.con_b)) => fn_ret = "DomainError"
        /\ IsFinite(results.fab) /\ IsFinite(results.fba) /\ IsFinite(results.fbo)

\* C4: a step of solve that fails halts the run there: control goes to the
\* panic, with t, y, the three trace vectors, the frames drawn and the lines
\* written as they were before the step; no step of the program follows a
\* panic (no retry, no redraw); the records appended before stay.
C4_Halt ==
    /\ [][(pc = "solve" /\ solve_ret' = "Err") =>
            /\ pc' = "panicked"
            /\ t' = t
            /\ y' = y
            /\ step' = step
            /\ t_trace' = t_trace
            /\ state_trace' = state_trace
            /\ results_trace' = results_trace
            /\ frames' = frames
            /\ stdout' = stdout]_vars
    /\ [][pc # "panicked"]_vars
    /\ [](pc = "panicked" =>
            /\ solve_ret = "Err"
            /\ TracesHave(step + 1)
            /\ Len(frames) = step
            /\ t_trace[step + 1] = t
            /\ state_trace[step + 1] = y)

C4_Witness ==
    /\ pc = "panicked"
    /\ solve_ret = "Err"
    /\ y = SingularState
    /\ t = t0
    /\ TracesHave(1)
    /\ frames = <<>>

IterationEvents == <<"step", "advance", "push_t", "push_state", "push_results", "plot", "println">>

\* C5: what an iteration has done so far is an initial segment of: step of
\* solve, t += dt, the three pushes, redraw, log line; a finished iteration
\* has done all of it once; the k-th redraw reads k + 1 entries of each
\* vector, the last being the new t, y and results; and when solve is called
\* every earlier iteration has drawn its frame and written its line.
C5_Order ==
    /\ IsPrefix(events, IterationEvents)
    /\ (pc = "loop" /\ step > 0) => events = IterationEvents
    /\ pc = "solve" => (events = <<>> /\ Len(frames) = step /\ Len(stdout) = step + 1)
    /\ pc = "println" => Len(frames) = step + 1
    /\ \A k \in 1 .. Len(frames) :
          frames[k] = [times |-> k + 1, states |-> k + 1, results |-> k + 1]
    /\ pc = "plot" =>
          /\ TracesHave(step + 2)
          /\ t_trace[step + 2] = t
          /\ t_trace[step + 2] = F64Add(t_trace[step + 1], dt)
          /\ state_trace[step + 2] = y
          /\ results_trace[step + 2] = results

C5_Witness ==
    /\ pc = "loop"
    /\ step = 2
    /\ events = IterationEvents
    /\ Len(frames) = 2
    /\ frames[2].times = 3

SameStep(r) == y = r.y /\ results = r.results /\ solve_ret = r.status

SameEvaluation(f) == fn_dydt = f.dydt /\ results = f.results /\ fn_ret = f.ret

\* C6: what a step of solve, and what one evaluation of the model, leaves in
\* y, in *results and as its return value is what it leaves when *results
\* holds AuxiliaryResults::new() on entry, whatever *results held.
C6_Deterministic ==
    /\ pc = "fn_solved" =>
          SameStep(Solve(fn_arg.y, t, F64Add(t, dt), AuxiliaryResultsNew))
    /\ pc = "fn_evaluated" =>
          SameEvaluation(system(t, fn_arg.y, AuxiliaryResultsNew))

C6_Witness ==
    /\ pc = "fn_solved"
    /\ fn_arg.results # AuxiliaryResultsNew
    /\ solve_ret = "Ok"
    /\ y # fn_arg.y
    /\ results # fn_arg.results

\* C7, as stated: the run starts from the amounts [9.0, 6.0]: record 0 holds
\* time 0.0, pool A = 9.0 and pool B = 6.0, and the first step of solve is
\* given these amounts.
C7_AsStated ==
    /\ t_trace[1] = t0
    /\ state_trace[1] = Vec2(FromInt(9), FromInt(6))
    /\ (pc = "solve" /\ step = 0) => y = Vec2(FromInt(9), FromInt(6))

TraceNonNeg ==
    \A k \in 1 .. Len(results_trace) :
        /\ NonNeg(results_trace[k].con_a)
        /\ NonNeg(results_trace[k].con_b)
        /\ NonNeg(results_trace[k].fab)
        /\ NonNeg(results_trace[k].fba)
        /\ NonNeg(results_trace[k].fbo)

EvaluatedPositive ==
    pc = "fn_evaluated" /\ Positive(results.con_a) /\ Positive(results.con_b)

\* C8, as stated: an evaluation at amounts with both concentrations > 0
\* gives fluxes that are non-negative and strictly below C[0], C[1], C[2],
\* and every concentration and flux in the trace is non-negative.
C8_AsStated ==
    /\ EvaluatedPositive =>
          /\ NonNeg(results.fab) /\ F64Lt(results.fab, C[0])
          /\ NonNeg(results.fba) /\ F64Lt(results.fba, C[1])
          /\ NonNeg(results.fbo) /\ F64Lt(results.fbo, C[2])
    /\ TraceNonNeg

\* C8, amended: an evaluation at amounts with both concentrations > 0 gives
\* a finite derivative and fluxes that are non-negative and at most C[0],
\* C[1], C[2] (a flux equals its maximum when 1.0 + K/concentration rounds to
\* 1.0), and every concentration and flux in the trace is non-negative.
C8_Bounded ==
    /\ EvaluatedPositive =>
          /\ fn_ret = "Ok"
          /\ FiniteVec(fn_dydt)
          /\ NonNeg(results.fab) /\ F64Le(results.fab, C[0])
          /\ NonNeg(results.fba) /\ F64Le(results.fba, C[1])
          /\ NonNeg(results.fbo) /\ F64Le(results.fbo, C[2])
    /\ TraceNonNeg

C8_Witness ==
    /\ EvaluatedPositive
    /\ fn_arg.y[0] = Huge
    /\ results.fab = C[0]

\* record k >= 2 holds the auxiliary results of the evaluation at the amounts
\* of the fourth evaluation of the step from record k - 1, which are those of
\* no other evaluation of that step and not those at the amounts the step
\* ended with
FromFourthEvaluation(k, h) ==
    /\ results_trace[k] = SnapshotAt(K4State(t_trace[k - 1], state_trace[k - 1], h))
    /\ results_trace[k] # SnapshotAt(state_trace[k])
    /\ results_trace[k] # SnapshotAt(state_trace[k - 1])
    /\ results_trace[k] # SnapshotAt(K2State(t_trace[k - 1], state_trace[k - 1], h))
    /\ results_trace[k] # SnapshotAt(K3State(t_trace[k - 1], state_trace[k - 1], h))

\* C9: the auxiliary results pushed for a step are those the fourth
\* evaluation of that step wrote, at the amounts y + h * k3; they differ from
\* those at the new y and from those of the first three evaluations.
C9_LastEvaluation ==
    pc = "plot" =>
        FromFourthEvaluation(Len(results_trace), StepSize(t_trace[Len(t_trace) - 1]))

C9_Witness ==
    /\ pc = "plot"
    /\ Len(results_trace) = 3
    /\ results_trace[3] = results
    /\ state_trace[3] = y
    /\ results # SnapshotAt(y)

\* C10: wherever the vectors are read (anywhere but between the three
\* pushes) they have the same length, and every step of the program leaves
\* the entries each vector already has as they are.
C10_AppendOnly ==
    /\ [](pc \notin {"push_state", "push_results"} => TracesHave(Len(t_trace)))
    /\ [][/\ IsPrefix(t_trace, t_trace')
          /\ IsPrefix(state_trace, state_trace')
          /\ IsPrefix(results_trace, results_trace')]_vars

C10_Witness ==
    /\ pc = "plot"
    /\ TracesHave(3)
    /\ state_trace[2] # y
    /\ results_trace[2] # results
    /\ t_trace[2] # t
====
